---- MODULE Spec2Model ----
(***************************************************************************)
(* Todo storage on Redis: one JSON string per todo under TODO:<id> and the *)
(* list TODOS_ORDER of identifiers, newest first (app/storage.py), driven  *)
(* by the Flask handlers of app/main.py.  Every Redis command, and every   *)
(* MULTI/EXEC pipeline, is one atomic step; a storage method that issues   *)
(* several commands is several steps of the calling client.                *)
(***************************************************************************)
EXTENDS Integers, Sequences, FiniteSets, TLC

\* ---------------------------------------------------------------- bounds
MaxIds == 3          \* uuid4 values that can be generated (and named in URLs)
MaxTitleLen == 2     \* longest title a request carries
MaxClock == 0        \* latest reading of datetime.utcnow()
MaxOrderLen == 3     \* longest TODOS_ORDER the application may find at start

Ids == 1..MaxIds
Whitespace == {" "}
Chars == {" ", "a"}
Titles == UNION {[1..n -> Chars] : n \in 0..MaxTitleLen}
Times == 0..MaxClock
Observed == "c1"            \* the client of the sequential runs
Clients == {"c2", "c3"}     \* the clients whose store commands interleave

VARIABLES
    kv,       \* Redis string keys: key -> raw value, for the keys that exist
    order,    \* Redis list TODOS_ORDER, head first (a missing list is empty)
    issued,   \* the uuid4 values generated so far, oldest first
    loc,      \* per client: the running storage call and its local variables
    ret,      \* what the last completed request of the observed client returned
    start,    \* observer: store contents when the observed client's call began
    last,     \* observer: the last completed call and the store before it
    prev      \* observer: the call completed before that one

store == <<kv, order>>
vars == <<kv, order, issued, loc, ret, start, last, prev>>

\* ------------------------------------------------------------ data model
None == <<>>
Some(x) == <<x>>

RECURSIVE lstrip(_)
lstrip(s) == IF s # <<>> /\ Head(s) \in Whitespace THEN lstrip(Tail(s)) ELSE s

RECURSIVE rstrip(_)
rstrip(s) ==
    IF s # <<>> /\ s[Len(s)] \in Whitespace
    THEN rstrip(SubSeq(s, 1, Len(s) - 1)) ELSE s

\* only the leading whitespace goes
strip_left(s) == lstrip(s)

\* the title is taken as sent
strip_none(s) == s

strip(s) == rstrip(lstrip(s))

Todo_new(title, uuid, now) ==
    [id |-> uuid, title |-> strip(title), done |-> FALSE, created_at |-> now]

\* json.dumps(todo.to_dict()): the record as text, here the tuple of its fields
json_dumps(t) == <<t.id, t.title, t.done, t.created_at>>

\* json.loads(raw) followed by Todo(**data) succeeds on a four-field object
WellFormed(raw) == Len(raw) = 4

json_loads(raw) ==
    [id |-> raw[1], title |-> raw[2], done |-> raw[3], created_at |-> raw[4]]

\* ------------------------------------------------------- Redis commands
todo_key(id) == <<"TODO", id>>

r_get(db, key) == IF key \in DOMAIN db THEN Some(db[key]) ELSE None

r_exists(db, key) == key \in DOMAIN db

r_set(db, key, raw) ==
    [k \in DOMAIN db \cup {key} |-> IF k = key THEN raw ELSE db[k]]

\* DEL that removes nothing
r_delete_none(db, key) == db

r_delete(db, key) == [k \in DOMAIN db \ {key} |-> db[k]]

r_delete_count(db, key) == IF key \in DOMAIN db THEN 1 ELSE 0

\* RPUSH: the new element goes to the tail
r_rpush(lst, x) == lst \o <<x>>

r_lpush(lst, x) == <<x>> \o lst

r_lrange(lst) == lst

r_lrem(lst, x) == SelectSeq(lst, LAMBDA y : y # x)

r_lrem_count(lst, x) == Len(lst) - Len(r_lrem(lst, x))

\* --------------------------------------------------- TodoStorage.get
\* [err |-> TRUE] when json.loads / Todo(**data) raises, else the Optional
get(db, id) ==
    LET raw == r_get(db, todo_key(id)) IN
    IF raw = None \/ raw[1] = <<>> THEN [err |-> FALSE, val |-> None]
    ELSE IF WellFormed(raw[1]) THEN [err |-> FALSE, val |-> Some(json_loads(raw[1]))]
    ELSE [err |-> TRUE, val |-> None]

\* one turn of list_all's loop: t = self.get(tid); if t: todos.append(t)
list_turn(db, tid, todos) ==
    LET g == get(db, tid) IN
    IF g.val = None THEN todos ELSE Append(todos, g.val[1])

\* TodoStorage.list_all when no other client's command runs in between
RECURSIVE list_loop(_, _, _)
list_loop(db, ids, todos) ==
    IF ids = <<>> THEN todos
    ELSE list_loop(db, Tail(ids), list_turn(db, Head(ids), todos))

list_all(db, lst) == list_loop(db, r_lrange(lst), <<>>)

\* t.done = True
flip_set(t) == [t EXCEPT !.done = TRUE]

\* toggle: t.done = not t.done
flip(t) == [t EXCEPT !.done = ~@]

\* --------------------------------------------------- client frames
Idle == [pc |-> "idle", op |-> "none", tid |-> 0, t |-> None,
         ids |-> <<>>, todos |-> <<>>, removed |-> 0]

\* what a request returns: the storage method's result (a todo or a list in
\* todos, a bool in flag, a count in n) and the status the JSON API gives it
Response(op, arg, kind, code) ==
    [op |-> op, arg |-> arg, kind |-> kind, code |-> code,
     n |-> 0, flag |-> FALSE, todos |-> <<>>]

NoRet == Response("none", 0, "none", 0)

RespTodo(op, arg, code, t) == [Response(op, arg, "todo", code) EXCEPT !.todos = <<t>>]

RespList(todos) == [Response("list_all", 0, "list", 200) EXCEPT !.todos = todos]

RespBool(op, arg, b) ==
    [Response(op, arg, "bool", IF b THEN 200 ELSE 404) EXCEPT !.flag = b]

RespInt(op, n) == [Response(op, 0, "int", 200) EXCEPT !.n = n]

NoStore == <<<<>>, <<>>>>

NoCall == [call |-> NoRet, before |-> NoStore]

Frame(c) == loc[c]

\* the observer of the sequential client: it remembers the store contents at
\* the start of the running call, the last completed call with the store
\* contents before it, and the response of the call before that
Brief(r) == [r EXCEPT !.todos = <<>>]

Observe(c) ==
    /\ start' = IF loc'[c].pc = "idle" THEN NoStore
                ELSE IF loc[c].pc = "idle" THEN store ELSE start
    /\ last' = IF loc'[c].pc = "idle"
               THEN [call |-> ret',
                     before |-> IF loc[c].pc = "idle" THEN store ELSE start]
               ELSE last
    /\ prev' = IF loc'[c].pc = "idle" THEN Brief(last.call) ELSE prev

Watch(c) == IF c = Observed THEN Observe(c) ELSE UNCHANGED <<start, last, prev>>

Return(c, r) ==
    /\ loc' = [loc EXCEPT ![c] = Idle]
    /\ ret' = IF c = Observed THEN r ELSE ret
    /\ Watch(c)

Goto(c, f) ==
    /\ loc' = [loc EXCEPT ![c] = f]
    /\ UNCHANGED ret
    /\ Watch(c)

Init ==
    /\ kv = <<>>
    /\ order = <<>>
    /\ issued = <<>>
    /\ loc = [c \in Clients \cup {Observed} |-> Idle]
    /\ ret = NoRet
    /\ start = NoStore
    /\ last = NoCall
    /\ prev = NoRet

\* ------------------------------------------------ TodoStorage.add
\* the record is written, the index is not
add_record_only(t) ==
    /\ kv' = r_set(kv, todo_key(t.id), json_dumps(t))
    /\ order' = order

\* pipeline: SET TODO:<id>, LPUSH TODOS_ORDER, executed as one MULTI/EXEC
add(t) ==
    /\ kv' = r_set(kv, todo_key(t.id), json_dumps(t))
    /\ order' = r_lpush(order, t.id)

\* uuid.uuid4(): a value no earlier call returned; the n-th value generated
\* is named n
uuid4(u) ==
    /\ \A i \in 1..Len(issued) : issued[i] # u
    /\ u = Len(issued) + 1

\* POST /add: request.form.get("title", "").strip(), flash when blank
add_todo(c, form, u, now) ==
    /\ Frame(c).pc = "idle"
    /\ LET title == strip(IF form = None THEN <<>> ELSE form[1]) IN
       IF title = <<>>
       THEN /\ Return(c, Response("add", 0, "invalid", 302))
            /\ UNCHANGED <<kv, order, issued>>
       ELSE /\ uuid4(u)
            /\ LET t == Todo_new(title, u, now) IN
               /\ add(t)
               /\ Return(c, RespTodo("add", 0, 302, t))
            /\ issued' = Append(issued, u)

\* POST /api/todos: (data.get("title") or "").strip(), 400 when blank
api_add(c, data, u, now) ==
    /\ Frame(c).pc = "idle"
    /\ LET title == strip(IF data = None THEN <<>> ELSE data[1]) IN
       IF title = <<>>
       THEN /\ Return(c, Response("add", 0, "invalid", 400))
            /\ UNCHANGED <<kv, order, issued>>
       ELSE /\ uuid4(u)
            /\ LET t == Todo_new(title, u, now) IN
               /\ add(t)
               /\ Return(c, RespTodo("add", 0, 201, t))
            /\ issued' = Append(issued, u)

\* ------------------------------------------------ TodoStorage.delete
\* pipeline: DEL TODO:<id>, LREM TODOS_ORDER 0 <id>, one MULTI/EXEC;
\* the result is bool(res[0] or res[1])
\* bool(res): a two-element result list is always true
delete_result_list(db, lst, id) == <<r_delete_count(db, todo_key(id)), r_lrem_count(lst, id)>> # <<>>

\* bool(res[0]): only the record key counts
delete_result_key(db, lst, id) == r_delete_count(db, todo_key(id)) # 0

delete_result(db, lst, id) ==
    r_delete_count(db, todo_key(id)) # 0 \/ r_lrem_count(lst, id) # 0

\* only the record key is deleted, the index keeps the identifier
delete_effect_key_only(id) ==
    /\ kv' = r_delete(kv, todo_key(id))
    /\ order' = order

\* the pipeline is filled but never executed
delete_effect_unsent(id) ==
    /\ kv' = kv
    /\ order' = order

delete_effect(id) ==
    /\ kv' = r_delete(kv, todo_key(id))
    /\ order' = r_lrem(order, id)

\* DEL and LREM sent as two commands, the client between them after the first
delete_unpipelined(c, id) ==
    /\ Frame(c).pc = "idle"
    /\ kv' = r_delete(kv, todo_key(id))
    /\ order' = order
    /\ Goto(c, [Idle EXCEPT !.pc = "delete_lrem", !.op = "delete", !.tid = id])
    /\ UNCHANGED issued

delete(c, id) ==
    /\ Frame(c).pc = "idle"
    /\ delete_effect(id)
    /\ Return(c, RespBool("delete", id, delete_result(kv, order, id)))
    /\ UNCHANGED issued

\* ------------------------------------------------ TodoStorage.toggle
\* a missing record is created instead of reported
toggle_get_upsert(c, id) ==
    /\ Frame(c).pc = "idle"
    /\ LET g == get(kv, id)
           t == IF g.val = None THEN Todo_new(<<>>, id, 0) ELSE g.val[1] IN
       IF g.err THEN Return(c, Response("toggle", id, "error", 500))
       ELSE Goto(c, [Idle EXCEPT !.pc = "update_set", !.op = "toggle", !.tid = id,
                                 !.t = Some(flip(t))])
    /\ UNCHANGED <<kv, order, issued>>

\* t = self.get(todo_id); if not t: return None; t.done = not t.done
toggle_get(c, id) ==
    /\ Frame(c).pc = "idle"
    /\ LET g == get(kv, id) IN
       IF g.err THEN Return(c, Response("toggle", id, "error", 500))
       ELSE IF g.val = None THEN Return(c, Response("toggle", id, "none", 404))
       ELSE Goto(c, [Idle EXCEPT !.pc = "update_exists", !.op = "toggle", !.tid = id,
                                 !.t = Some(flip(g.val[1]))])
    /\ UNCHANGED <<kv, order, issued>>

\* TodoStorage.update: if not self.r.exists(key): return False
\* (toggle ignores the result and returns t)
update_exists(c) ==
    /\ Frame(c).pc = "update_exists"
    /\ LET t == Frame(c).t[1] IN
       IF ~r_exists(kv, todo_key(t.id))
       THEN Return(c, RespTodo("toggle", Frame(c).tid, 200, t))
       ELSE Goto(c, [Frame(c) EXCEPT !.pc = "update_set"])
    /\ UNCHANGED <<kv, order, issued>>

\* the record is written the way add writes it, pushing the id again
update_set_as_add(c) ==
    /\ Frame(c).pc = "update_set"
    /\ LET t == Frame(c).t[1] IN
       /\ add(t)
       /\ Return(c, RespTodo("toggle", Frame(c).tid, 200, t))
    /\ UNCHANGED issued

\* TodoStorage.update: self.r.set(key, json.dumps(todo.to_dict())); return True
update_set(c) ==
    /\ Frame(c).pc = "update_set"
    /\ LET t == Frame(c).t[1] IN
       /\ kv' = r_set(kv, todo_key(t.id), json_dumps(t))
       /\ Return(c, RespTodo("toggle", Frame(c).tid, 200, t))
    /\ UNCHANGED <<order, issued>>

\* ------------------------------------------------ TodoStorage.list_all
\* ids = self.r.lrange(TODOS_ORDER, 0, -1)
list_lrange(c) ==
    /\ Frame(c).pc = "idle"
    /\ LET ids == r_lrange(order) IN
       IF ids = <<>> THEN Return(c, RespList(<<>>))
       ELSE Goto(c, [Idle EXCEPT !.pc = "list_get", !.op = "list_all", !.ids = ids])
    /\ UNCHANGED <<kv, order, issued>>

\* one turn of the loop: t = self.get(tid); if t: todos.append(t)
list_get(c) ==
    /\ Frame(c).pc = "list_get"
    /\ LET g == get(kv, Head(Frame(c).ids))
           todos == list_turn(kv, Head(Frame(c).ids), Frame(c).todos)
           rest == Tail(Frame(c).ids) IN
       IF g.err THEN Return(c, Response("list_all", 0, "error", 500))
       ELSE IF rest = <<>> THEN Return(c, RespList(todos))
       ELSE Goto(c, [Frame(c) EXCEPT !.ids = rest, !.todos = todos])
    /\ UNCHANGED <<kv, order, issued>>

\* ------------------------------------------- TodoStorage.clear_completed
\* ids = [b.decode() for b in self.r.lrange(TODOS_ORDER, 0, -1)]; removed = 0
clear_lrange(c) ==
    /\ Frame(c).pc = "idle"
    /\ LET ids == r_lrange(order) IN
       IF ids = <<>> THEN Return(c, RespInt("clear_completed", 0))
       ELSE Goto(c, [Idle EXCEPT !.pc = "clear_get", !.op = "clear_completed",
                                 !.ids = ids])
    /\ UNCHANGED <<kv, order, issued>>

\* the loop moves to the next identifier, or returns removed after the last
clear_advance(c, removed) ==
    LET rest == Tail(Frame(c).ids) IN
    IF rest = <<>> THEN Return(c, RespInt("clear_completed", removed))
    ELSE Goto(c, [Frame(c) EXCEPT !.pc = "clear_get", !.ids = rest,
                                  !.removed = removed, !.tid = 0])

\* every record found is deleted, done or not
clear_get_all(c) ==
    /\ Frame(c).pc = "clear_get"
    /\ LET tid == Head(Frame(c).ids)
           g == get(kv, tid) IN
       IF g.err THEN Return(c, Response("clear_completed", 0, "error", 500))
       ELSE IF g.val # None
       THEN Goto(c, [Frame(c) EXCEPT !.pc = "clear_delete", !.tid = tid])
       ELSE clear_advance(c, Frame(c).removed)
    /\ UNCHANGED <<kv, order, issued>>

\* t = self.get(tid); if t and t.done: (delete follows)
clear_get(c) ==
    /\ Frame(c).pc = "clear_get"
    /\ LET tid == Head(Frame(c).ids)
           g == get(kv, tid) IN
       IF g.err THEN Return(c, Response("clear_completed", 0, "error", 500))
       ELSE IF g.val # None /\ g.val[1].done
       THEN Goto(c, [Frame(c) EXCEPT !.pc = "clear_delete", !.tid = tid])
       ELSE clear_advance(c, Frame(c).removed)
    /\ UNCHANGED <<kv, order, issued>>

\* if self.delete(tid): removed += 1
clear_delete(c) ==
    /\ Frame(c).pc = "clear_delete"
    /\ LET tid == Frame(c).tid IN
       /\ delete_effect(tid)
       /\ clear_advance(c, IF delete_result(kv, order, tid)
                           THEN Frame(c).removed + 1 ELSE Frame(c).removed)
    /\ UNCHANGED issued

\* ------------------------------------------------------ specifications
\* a request's title field: missing, or any title
Forms == {None} \cup {Some(t) : t \in Titles}

Request(c) ==
    \/ \E f \in Forms, u \in Ids, now \in Times : add_todo(c, f, u, now)
    \/ \E d \in Forms, u \in Ids, now \in Times : api_add(c, d, u, now)
    \/ \E id \in Ids : toggle_get(c, id)
    \/ update_exists(c)
    \/ update_set(c)
    \/ \E id \in Ids : delete(c, id)
    \/ list_lrange(c)
    \/ list_get(c)
    \/ clear_lrange(c)
    \/ clear_get(c)
    \/ clear_delete(c)

\* two clients, their store commands interleaved
Next == \E c \in Clients : Request(c)

Spec == Init /\ [][Next]_vars

\* one client, each call running to completion before the next starts
SeqNext == Request(Observed)

SeqSpec == Init /\ [][SeqNext]_vars

\* The application started on a Redis database it did not fill itself: any
\* keys TODO:<id> with any string values, any list TODOS_ORDER, over the
\* identifiers generated before.  One request is then served.
StoredTitles == {strip(t) : t \in Titles} \ {<<>>}

\* a value that json.loads rejects
Garbage == <<"{">>

RawValues(id) ==
    {json_dumps(t) : t \in [id : {id}, title : StoredTitles,
                            done : BOOLEAN, created_at : Times]}
        \cup {Garbage, <<>>}

Stores(known) ==
    UNION {{db \in [{todo_key(i) : i \in K} -> UNION {RawValues(i) : i \in known}] :
                \A i \in K : db[todo_key(i)] \in RawValues(i)} : K \in SUBSET known}

Lists(known) == UNION {[1..n -> known] : n \in 0..MaxOrderLen}

AnyInit ==
    /\ issued \in {[i \in 1..n |-> i] : n \in 0..MaxIds}
    /\ kv \in Stores({issued[i] : i \in 1..Len(issued)})
    /\ order \in Lists({issued[i] : i \in 1..Len(issued)})
    /\ loc = [c \in Clients \cup {Observed} |-> Idle]
    /\ ret = NoRet
    /\ start = NoStore
    /\ last = NoCall
    /\ prev = NoRet

\* the client sends a request as long as none has been answered
Unanswered == last = NoCall

AnyNext ==
    \/ \E f \in Forms, u \in Ids, now \in Times :
            Unanswered /\ add_todo(Observed, f, u, now)
    \/ \E d \in Forms, u \in Ids, now \in Times :
            Unanswered /\ api_add(Observed, d, u, now)
    \/ \E id \in Ids : Unanswered /\ toggle_get(Observed, id)
    \/ Unanswered /\ update_exists(Observed)
    \/ Unanswered /\ update_set(Observed)
    \/ \E id \in Ids : Unanswered /\ delete(Observed, id)
    \/ Unanswered /\ list_lrange(Observed)
    \/ Unanswered /\ list_get(Observed)
    \/ Unanswered /\ clear_lrange(Observed)
    \/ Unanswered /\ clear_get(Observed)
    \/ Unanswered /\ clear_delete(Observed)

AnySpec == AnyInit /\ [][AnyNext]_vars

\* ------------------------------------------------------------ claims
Me == loc[Observed]

HasRecord(db, id) == r_exists(db, todo_key(id))

InList(lst, id) == \E i \in 1..Len(lst) : lst[i] = id

IdsOf(todos) == [i \in 1..Len(todos) |-> todos[i].id]

Reverse(s) == [i \in 1..Len(s) |-> s[Len(s) + 1 - i]]

AllWhitespace(s) == \A i \in 1..Len(s) : s[i] \in Whitespace

\* t is s without its leading and trailing whitespace
IsTrimOf(t, s) ==
    /\ t # <<>> => (t[1] \notin Whitespace /\ t[Len(t)] \notin Whitespace)
    /\ \E i \in 1..(Len(s) + 1), j \in 0..Len(s) :
        /\ t = SubSeq(s, i, j)
        /\ AllWhitespace(SubSeq(s, 1, i - 1))
        /\ AllWhitespace(SubSeq(s, j + 1, Len(s)))

TitleOf(f) == IF f = None THEN <<>> ELSE f[1]

Blank(f) == AllWhitespace(TitleOf(f))

\* C1: while add, toggle, delete and clear_completed of two clients
\* interleave, every identifier in TODOS_ORDER has a record under TODO:<id>.
NoDanglingReference == \A i \in 1..Len(order) : HasRecord(kv, order[i])

\* a toggle is about to write a record that the other client deleted after
\* the toggle's read, while the index still lists another todo
NoDanglingWitness ==
    /\ order # <<>>
    /\ \E c \in Clients :
        /\ loc[c].pc \in {"update_exists", "update_set"}
        /\ ~HasRecord(kv, loc[c].tid)
        /\ \E d \in Clients \ {c} : loc[d].pc # "idle"

\* C2: an add with a non-blank title makes get(id) and list_all return a
\* record with the trimmed title and done = false, under an identifier that
\* no earlier add used.
AddAction(f, u, now) == add_todo(Observed, f, u, now) \/ api_add(Observed, f, u, now)

AddThenGet ==
    [][issued' # issued => \A f \in Forms, u \in Ids, now \in Times :
        (AddAction(f, u, now) /\ ~Blank(f)) =>
            /\ get(kv', u).val # None
            /\ LET t == get(kv', u).val[1] IN
               /\ t.id = u
               /\ IsTrimOf(t.title, TitleOf(f))
               /\ t.done = FALSE
               /\ \E i \in 1..Len(list_all(kv', order')) :
                    list_all(kv', order')[i] = t
               /\ ret'.kind = "todo" /\ ret'.todos = <<t>>
            /\ ~InList(issued, u)
            /\ ~HasRecord(kv, u) /\ ~InList(order, u)
            /\ \A i \in 1..Len(list_all(kv, order)) : list_all(kv, order)[i].id # u
      ]_vars

\* the observed client has added a todo whose title carried whitespace to trim,
\* after an earlier todo
AddThenGetWitness ==
    /\ Me.pc = "idle"
    /\ last.call.op = "add" /\ last.call.kind = "todo"
    /\ Len(issued) >= 2
    /\ Len(last.before[2]) >= 1
    /\ get(kv, last.call.todos[1].id).val = last.call.todos

\* C3: in a sequential run list_all returns the surviving records newest
\* first, that is in the reverse of the order in which they were added.
Survivors == SelectSeq(issued, LAMBDA id : HasRecord(kv, id))

NewestFirst ==
    (Me.pc = "idle" /\ ret.op = "list_all" /\ ret.kind = "list") =>
        /\ IdsOf(ret.todos) = Reverse(Survivors)
        /\ ret.todos = list_all(kv, order)

\* list_all returned two todos after three were added and one removed
NewestFirstWitness ==
    /\ Me.pc = "idle" /\ ret.op = "list_all" /\ ret.kind = "list"
    /\ Len(ret.todos) = 2
    /\ Len(issued) = 3

\* C4: an add whose title is missing, empty or all whitespace is refused
\* (flash and redirect on POST /add, 400 on POST /api/todos) and leaves the
\* store as it was: no record key, no index entry.
BlankAddRejected ==
    [][(Me.pc = "idle" /\ ret'.op = "add") =>
        \A f \in Forms, u \in Ids, now \in Times :
            /\ (add_todo(Observed, f, u, now) /\ Blank(f)) =>
                    /\ ret'.kind = "invalid" /\ ret'.code = 302
                    /\ kv' = kv /\ order' = order
            /\ (api_add(Observed, f, u, now) /\ Blank(f)) =>
                    /\ ret'.kind = "invalid" /\ ret'.code = 400
                    /\ kv' = kv /\ order' = order
      ]_vars

\* a blank add was refused while the store held a todo
BlankAddRejectedWitness ==
    /\ Me.pc = "idle"
    /\ last.call.op = "add" /\ last.call.kind = "invalid"
    /\ last.before[2] # <<>>
    /\ store = last.before

\* C5: delete of an identifier that has a record and an index entry removes
\* both: get returns absent, list_all has no record of it, and list_all is
\* otherwise what it was, in the same order.
DeleteCall(id) ==
    \/ delete(Observed, id)
    \/ clear_delete(Observed) /\ Me.tid = id

DeleteRemoves ==
    [][\A id \in Ids :
        (DeleteCall(id) /\ HasRecord(kv, id) /\ InList(order, id)) =>
            /\ get(kv', id).val = None
            /\ ~HasRecord(kv', id)
            /\ ~InList(order', id)
            /\ list_all(kv', order')
                 = SelectSeq(list_all(kv, order), LAMBDA t : t.id # id)
            /\ \A o \in Ids \ {id} : get(kv', o) = get(kv, o)
      ]_vars

\* a todo between two others was deleted
DeleteRemovesWitness ==
    /\ Me.pc = "idle"
    /\ last.call.op = "delete" /\ last.call.flag
    /\ Len(last.before[2]) = 3
    /\ last.before[2][2] = last.call.arg
    /\ Len(order) = 2

\* C6: delete of an identifier with neither a record nor an index entry
\* returns false (404 on the API) and changes nothing in the store.
DeleteMissing ==
    [][\A id \in Ids :
        (delete(Observed, id) /\ ~HasRecord(kv, id) /\ ~InList(order, id)) =>
            /\ ret'.kind = "bool" /\ ret'.flag = FALSE /\ ret'.code = 404
            /\ kv' = kv /\ order' = order
      ]_vars

\* a delete of an unknown identifier came back false while todos were stored
DeleteMissingWitness ==
    /\ Me.pc = "idle"
    /\ last.call.op = "delete" /\ ~last.call.flag
    /\ Len(order) >= 2
    /\ store = last.before

\* C7: toggle of an identifier without a record returns None (404 on the
\* API), creates no record key and leaves the index alone.
ToggleMissing ==
    [][\A id \in Ids :
        (toggle_get(Observed, id) /\ ~HasRecord(kv, id)) =>
            /\ loc'[Observed].pc = "idle"
            /\ ret'.kind = "none" /\ ret'.code = 404
            /\ kv' = kv /\ order' = order
      ]_vars

\* a toggle of a deleted todo came back not-found while others were stored
ToggleMissingWitness ==
    /\ Me.pc = "idle"
    /\ last.call.op = "toggle" /\ last.call.kind = "none"
    /\ InList(issued, last.call.arg)
    /\ order # <<>>
    /\ store = last.before

\* C8: in a sequential run two consecutive toggles of an existing record
\* restore its completion flag, and the store is then what it was before the
\* first of them.
ToggleTwice ==
    [][(/\ Me.op = "toggle" /\ loc'[Observed].pc = "idle"
        /\ last.call.op = "toggle" /\ last.call.kind = "todo"
        /\ last.call.arg = Me.tid) =>
            /\ HasRecord(kv', Me.tid) /\ HasRecord(last.before[1], Me.tid)
            /\ get(kv', Me.tid).val[1].done = get(last.before[1], Me.tid).val[1].done
            /\ ret'.kind = "todo"
            /\ ret'.todos[1].done = get(last.before[1], Me.tid).val[1].done
            /\ kv'[todo_key(Me.tid)] = last.before[1][todo_key(Me.tid)]
            /\ kv' = last.before[1] /\ order' = last.before[2]
      ]_vars

\* the same todo was toggled twice in a row, next to another todo
ToggleTwiceWitness ==
    /\ Me.pc = "idle"
    /\ last.call.op = "toggle" /\ last.call.kind = "todo"
    /\ prev.op = "toggle" /\ prev.kind = "todo" /\ prev.arg = last.call.arg
    /\ Len(order) >= 2
    /\ HasRecord(kv, last.call.arg)

\* C9: in a sequential run clear_completed returns the number of listed
\* records that were done, and list_all is then the records that were not
\* done, in the order they had.
Completed(todos) == SelectSeq(todos, LAMBDA t : t.done)

Pending(todos) == SelectSeq(todos, LAMBDA t : ~t.done)

ClearCompletedCounts ==
    (Me.pc = "idle" /\ last.call.op = "clear_completed") =>
        LET before == list_all(last.before[1], last.before[2]) IN
        /\ last.call.kind = "int"
        /\ last.call.n = Len(Completed(before))
        /\ list_all(kv, order) = Pending(before)
        /\ IdsOf(Pending(before)) = order

\* three todos added, two of them toggled: clear_completed returned 2 and
\* one todo is left
ClearCompletedWitness ==
    /\ Me.pc = "idle" /\ last.call.op = "clear_completed"
    /\ Len(last.before[2]) = 3
    /\ last.call.n = 2
    /\ Len(list_all(kv, order)) = 1

\* C10: a clear_completed that directly follows a clear_completed returns 0
\* and leaves the store as it found it.
ClearTwice ==
    (Me.pc = "idle" /\ last.call.op = "clear_completed"
        /\ prev.op = "clear_completed") =>
        /\ last.call.n = 0
        /\ store = last.before

\* the first clear_completed removed two todos, the second none, one is left
ClearTwiceWitness ==
    /\ Me.pc = "idle"
    /\ last.call.op = "clear_completed" /\ prev.op = "clear_completed"
    /\ prev.n = 2
    /\ last.call.n = 0
    /\ Len(order) = 1

\* C11: get gives absent, never an error, for a key that is missing and for
\* a value that does not deserialize: a toggle of such an identifier is
\* answered not-found, and list_all over an index that names it completes
\* and leaves the entry out.
Readable(db, id) == get(db, id).val # None

Listed(db, lst) == SelectSeq(lst, LAMBDA id : Readable(db, id))

MalformedIsAbsent ==
    (Me.pc = "idle" /\ last.call.op \in {"toggle", "list_all"}) =>
        /\ last.call.kind # "error"
        /\ (last.call.op = "toggle" /\ ~Readable(last.before[1], last.call.arg))
                => last.call.kind = "none"
        /\ last.call.op = "list_all"
                => IdsOf(last.call.todos) = Listed(last.before[1], last.before[2])

\* C12: delete returns true exactly when the record key existed or the
\* identifier occurred in the index, also for a record without index entry
\* and for index entries without record; afterwards neither is left.
DeleteReports ==
    (Me.pc = "idle" /\ last.call.op = "delete") =>
        /\ last.call.kind = "bool"
        /\ last.call.flag = (HasRecord(last.before[1], last.call.arg)
                                \/ InList(last.before[2], last.call.arg))
        /\ ~HasRecord(kv, last.call.arg)
        /\ ~InList(order, last.call.arg)
        /\ order = SelectSeq(last.before[2], LAMBDA id : id # last.call.arg)

\* an identifier listed twice without a record was deleted, next to another
\* listed identifier
DeleteReportsWitness ==
    /\ Me.pc = "idle" /\ last.call.op = "delete"
    /\ last.call.flag
    /\ ~HasRecord(last.before[1], last.call.arg)
    /\ Len(last.before[2]) = 3
    /\ Len(order) = 1

\* C13: on every store, dangling references included, list_all returns
\* without error the records of the index identifiers that have one, in
\* index order, and leaves the store as it is.
ListAllAnyStore ==
    (Me.pc = "idle" /\ last.call.op = "list_all") =>
        /\ last.call.kind = "list"
        /\ LET ids == Listed(last.before[1], last.before[2]) IN
           /\ Len(last.call.todos) = Len(ids)
           /\ \A i \in 1..Len(ids) :
                last.call.todos[i] = get(last.before[1], ids[i]).val[1]
        /\ store = last.before

\* C14: a toggle of an existing record changes the done flag of that record
\* and nothing else: its id, title and created_at, every other key and the
\* index stay as they were.
ToggleFrame ==
    (Me.pc = "idle" /\ last.call.op = "toggle"
        /\ Readable(last.before[1], last.call.arg)) =>
        LET id == last.call.arg
            old == get(last.before[1], id).val[1] IN
        /\ last.call.kind = "todo"
        /\ Readable(kv, id)
        /\ get(kv, id).val[1] = [old EXCEPT !.done = ~old.done]
        /\ last.call.todos = <<[old EXCEPT !.done = ~old.done]>>
        /\ DOMAIN kv = DOMAIN last.before[1]
        /\ \A k \in DOMAIN kv \ {todo_key(id)} : kv[k] = last.before[1][k]
        /\ order = last.before[2]

\* a done todo was toggled back while another key and two index entries
\* were stored
ToggleFrameWitness ==
    /\ Me.pc = "idle" /\ last.call.op = "toggle" /\ last.call.kind = "todo"
    /\ ~last.call.todos[1].done
    /\ Cardinality(DOMAIN kv) >= 2
    /\ Len(order) >= 2

\* C15: every service operation is one round trip or one pipeline, so it
\* reads and writes the store in a single step: no client is ever between
\* two store commands of one operation.
NoCallInFlight == \A c \in Clients : loc[c].pc = "idle"

\* C15 as amended: add and delete are one pipeline each, run in one step that
\* changes record and index together; only toggle, list_all and
\* clear_completed are ever between two of their store commands.
OnlyPipelinesAtomic ==
    [][/\ \A c \in Clients :
            loc'[c].pc # "idle" =>
                loc'[c].op \in {"toggle", "list_all", "clear_completed"}
       /\ issued' # issued =>
            /\ HasRecord(kv', issued'[Len(issued')])
            /\ order' = <<issued'[Len(issued')]>> \o order
            /\ \A c \in Clients : loc'[c].pc = loc[c].pc
       /\ \A id \in Ids :
            (HasRecord(kv, id) /\ ~HasRecord(kv', id)) => ~InList(order', id)
       /\ \A id \in Ids :
            (InList(order, id) /\ ~InList(order', id)) => ~HasRecord(kv', id)
      ]_vars

\* a toggle is about to write the record that a clear_completed of the
\* other client is about to delete
OnlyPipelinesAtomicWitness ==
    \E c \in Clients, d \in Clients :
        /\ loc[c].pc = "update_set"
        /\ loc[d].pc = "clear_delete"
        /\ loc[c].tid = loc[d].tid

\* C16: a deleted record stays deleted: an identifier that was generated and
\* has no record any more never has a record again, whatever toggle of
\* another client runs around the delete.
DeletedStaysDeleted ==
    [][\A id \in Ids :
        (InList(issued, id) /\ ~HasRecord(kv, id)) => ~HasRecord(kv', id)
      ]_vars

\* C17: clear_completed removes only completed todos: when its delete runs,
\* the record it removes has done = true.
ClearDeletesOnlyDone ==
    [][\A c \in Clients :
        (clear_delete(c) /\ Readable(kv, loc[c].tid)) =>
            get(kv, loc[c].tid).val[1].done
      ]_vars

\* C18: from the empty store, after any sequence of completed calls, the
\* identifiers in the index are the identifiers that have a record, each
\* listed once.
IndexMatchesRecords ==
    Me.pc = "idle" =>
        /\ {order[i] : i \in 1..Len(order)} = {id \in Ids : HasRecord(kv, id)}
        /\ \A i \in 1..Len(order), j \in 1..Len(order) :
                order[i] = order[j] => i = j

\* three todos were added, one was deleted and one cleared as completed
IndexMatchesRecordsWitness ==
    /\ Me.pc = "idle"
    /\ Len(issued) = 3
    /\ prev.op = "delete" /\ prev.flag
    /\ last.call.op = "clear_completed" /\ last.call.n = 1
    /\ Len(order) = 1

====
